---- MODULE Spec2Model ----
(***************************************************************************)
(* Model of src/videos.py: solve() reads a video-placement instance,       *)
(* builds a binary linear program (placement variables x, capacity         *)
(* constraints, marginal-gain variables z with their cover constraints),   *)
(* hands it to the solver and writes the placement found.                  *)
(*                                                                         *)
(* Identifiers (videos, endpoints, caches) are 0-based as in the source;   *)
(* a Python list l is a sequence and l[k] is written l[k+1].  A Python     *)
(* dict is the sequence of its <<key, value>> items in insertion order.    *)
(***************************************************************************)
EXTENDS Integers, Sequences, FiniteSets, TLC

\* ------------------------------------------------------------------------
\* Bounds of the instances explored
\* ------------------------------------------------------------------------
MaxV == 2
MaxK == 2
MaxR == 2

VARIABLES
  file,             \* the input file: its lines, each a list of tokens
  defect,           \* how the file departs from the input format ("none" if not)
  pos,              \* number of lines read so far
  pc,               \* position in solve()
  raised,           \* source line of the uncaught exception, 0 if none
  V, E, R, C, X,    \* header values (line 10)
  video_sizes,      \* list of sizes (line 13)
  L_dc, K,          \* header of the endpoint being read (line 18)
  nconn,            \* connections of that endpoint read so far
  cache_connections,\* dict cache -> latency of the endpoint being read
  endpoints,        \* list of [L_dc, caches] (lines 15-24)
  requests,         \* list of [v, e, n] (lines 26-30)
  m,                \* the model object: "none" until line 33
  i,                \* position of the loop being run
  relevant_pairs,   \* set of <<c, v>> (line 44)
  x,                \* dict of placement variables: its keys <<c, v>>, in order
  numVars,          \* number of addVar calls made for placement variables
  capacity,         \* capacity constraints added, in order
  requests_summary, \* dict (v, e) -> n, as items <<<<v, e>>, n>>
  z,                \* marginal-gain variables, each with its cover constraint
  SolCount,         \* m.SolCount after optimize()
  xval,             \* the values var.X of the x variables, when a solution exists
  reads,            \* number of var.X reads made
  solution,         \* dict cache -> list of videos, as items <<c, videos>>
  out               \* lines written to videos.out; empty until written

fileVars   == <<file, defect>>
parsed     == <<V, E, R, C, X, video_sizes, endpoints, requests>>
parseVars  == <<pos, L_dc, K, nconn, cache_connections>>
modelVars  == <<relevant_pairs, x, numVars, capacity, requests_summary, z>>
solverVars == <<SolCount, xval>>
outVars    == <<reads, solution, out>>

vars == <<fileVars, pc, raised, parsed, parseVars, m, i, modelVars, solverVars, outVars>>

\* ------------------------------------------------------------------------
\* Helpers on sequences and dicts
\* ------------------------------------------------------------------------
Range(s) == {s[k] : k \in DOMAIN s}

Keys(d) == {d[k][1] : k \in DOMAIN d}

HasKey(d, key) == \E k \in DOMAIN d : d[k][1] = key

Lookup(d, key) == d[CHOOSE k \in DOMAIN d : d[k][1] = key][2]

\* d[key] = val on an insertion-ordered dict: a present key keeps its place
DictSet(d, key, val) ==
  IF HasKey(d, key)
    THEN [k \in DOMAIN d |-> IF d[k][1] = key THEN <<key, val>> ELSE d[k]]
    ELSE Append(d, <<key, val>>)

\* d.get(key, dflt)
DictGet(d, key, dflt) == IF HasKey(d, key) THEN Lookup(d, key) ELSE dflt

RECURSIVE SumOver(_, _)
SumOver(S, f) ==
  IF S = {} THEN 0
  ELSE LET a == CHOOSE b \in S : TRUE IN f[a] + SumOver(S \ {a}, f)

\* all sequences over S of length at most n
SeqsUpTo(S, n) == UNION {[1..k -> S] : k \in 0..n}

\* sequences without repeated first component (the items of a dict)
IsDict(d) == \A j, k \in DOMAIN d : d[j][1] = d[k][1] => j = k

\* <<c, v>> pairs in lexicographic order
PairLeq(a, b) == a[1] < b[1] \/ (a[1] = b[1] /\ a[2] <= b[2])

RECURSIVE Ascending(_)
Ascending(S) ==
  IF S = {} THEN <<>>
  ELSE LET least == CHOOSE a \in S : \A b \in S : PairLeq(a, b)
       IN  <<least>> \o Ascending(S \ {least})

Reverse(s) == [k \in 1..Len(s) |-> s[Len(s) + 1 - k]]

\* Enumeration orders of a Python set of pairs.  The order follows the hash
\* table, not the program; two opposite orders are explored.
Orders(S) == {Ascending(S), Reverse(Ascending(S))}

\* ------------------------------------------------------------------------
\* The computations of solve(), as the code makes them
\* ------------------------------------------------------------------------

\* variant of AddPairs that applies a latency threshold
AddPairsBetterOnly(rp, req) ==
  rp \cup {<<c, req.v>> : c \in {c \in Keys(endpoints[req.e + 1].caches) :
              Lookup(endpoints[req.e + 1].caches, c) < endpoints[req.e + 1].L_dc}}

\* lines 46-49: one iteration of the relevance loop, for request record req
AddPairs(rp, req) ==
  rp \cup {<<c, req.v>> : c \in Keys(endpoints[req.e + 1].caches)}

\* variant of CapacityTerms that stops one video short (range(V - 1))
CapacityTermsShort(c) == {v \in 0..(V - 2) : <<c, v>> \in Range(x)}

\* lines 61-64: the capacity constraint of cache c
\*   sum(video_sizes[v] * x[c, v] for v in range(V) if (c, v) in x) <= X
CapacityTerms(c) == {v \in 0..(V - 1) : <<c, v>> \in Range(x)}

CapacityConstr(c) ==
  [c    |-> c,
   coef |-> [v \in CapacityTerms(c) |-> video_sizes[v + 1]],
   rhs  |-> X]

\* variant of Summarize that keeps the last n instead of the sum
SummarizeLast(summary, req) == DictSet(summary, <<req.v, req.e>>, req.n)

\* lines 78-79: requests_summary[pair] = requests_summary.get(pair, 0) + n
Summarize(summary, req) ==
  DictSet(summary, <<req.v, req.e>>, DictGet(summary, <<req.v, req.e>>, 0) + req.n)

\* line 94: sorted(caches.items(), key=latency); sorted() is stable
InsertByLat(s, item) ==
  LET k == Cardinality({j \in DOMAIN s : s[j][2] <= item[2]})
  IN  SubSeq(s, 1, k) \o <<item>> \o SubSeq(s, k + 1, Len(s))

RECURSIVE SortedCaches(_)
SortedCaches(caches) ==
  IF caches = <<>> THEN <<>>
  ELSE InsertByLat(SortedCaches(SubSeq(caches, 1, Len(caches) - 1)),
                   caches[Len(caches)])

\* variant of Better that keeps every cache
BetterOrNot(lat, dc) == lat > 0

\* line 98: keep the caches strictly better than the datacenter
Better(lat, dc) == lat < dc

ValidCaches(e) ==
  LET dc == endpoints[e + 1].L_dc
      IsBetter(item) == Better(item[2], dc)
  IN  SelectSeq(SortedCaches(endpoints[e + 1].caches), IsBetter)

\* line 105: values[i] = L_dc - lat
Values(e) ==
  LET valid == ValidCaches(e)
  IN  [j \in 1..Len(valid) |-> endpoints[e + 1].L_dc - valid[j][2]]

\* variant of MarginalGain that takes the whole gain of each rank
MarginalGainWhole(values, j) == values[j]

\* lines 114-117: marginal gain of rank j-1 (j is the 1-based position)
MarginalGain(values, j) ==
  IF j < Len(values) THEN values[j] - values[j + 1] ELSE values[j]

\* lines 112-129: the z variables created for (v, e) with demand n, each
\* with the caches of its cover constraint  z <= sum(x[c, v] for c in subset);
\* gain is the local marginal_gain of the iteration, obj the coefficient
ZFamily(v, e, n) ==
  LET valid  == ValidCaches(e)
      values == Values(e)
      all    == [j \in 1..Len(valid) |->
                   [v      |-> v,
                    e      |-> e,
                    i      |-> j - 1,
                    gain   |-> MarginalGain(values, j),
                    obj    |-> MarginalGain(values, j) * n,
                    subset |-> [k \in 1..j |-> valid[k][1]]]]
      Kept(r) == ~(r.gain <= 0)
  IN  SelectSeq(all, Kept)

\* line 148: var.X > 0.5 on a binary value
Assigned(val) == 2 * val > 1

\* variant of Place that replaces the list of c instead of appending to it
PlaceOverwrite(sol, c, v) ==
  IF HasKey(sol, c) THEN DictSet(sol, c, <<v>>)
  ELSE Append(sol, <<c, <<v>>>>)

\* lines 149-151: record video v for cache c
Place(sol, c, v) ==
  IF HasKey(sol, c) THEN DictSet(sol, c, Append(Lookup(sol, c), v))
  ELSE Append(sol, <<c, <<v>>>>)

\* variant of HasSolution that also reads when no solution exists
HasSolutionOrNone(count) == count >= 0

\* line 146: the solver's values are read only if a solution exists
HasSolution(count) == count > 0

\* lines 145-151: the extraction loop over x.items(), from position k on
RECURSIVE Extracted(_, _, _)
Extracted(keys, xv, k) ==
  IF k = 0 THEN <<>>
  ELSE LET sol == Extracted(keys, xv, k - 1)
       IN  IF Assigned(xv[keys[k]]) THEN Place(sol, keys[k][1], keys[k][2])
           ELSE sol

\* lines 155-157: the lines of videos.out
OutputLines(sol) ==
  <<<<Len(sol)>>>> \o [k \in 1..Len(sol) |-> <<sol[k][1]>> \o sol[k][2]]

\* the assignments the solver may hold: binary values meeting every
\* constraint of the model (capacity and cover)
CapacityOk(xv) ==
  \A k \in DOMAIN capacity :
    LET con == capacity[k]
    IN  SumOver(DOMAIN con.coef,
                [v \in DOMAIN con.coef |-> con.coef[v] * xv[<<con.c, v>>]])
          <= con.rhs

CoverOk(xv, zv) ==
  \A k \in DOMAIN z :
    zv[k] <= SumOver(Range(z[k].subset),
                     [c \in Range(z[k].subset) |-> xv[<<c, z[k].v>>]])

Feasible(xv, zv) == CapacityOk(xv) /\ CoverOk(xv, zv)

XAssignments == [Range(x) -> {0, 1}]
ZAssignments == [DOMAIN z -> {0, 1}]

\* the objective: sum of obj * z over the z variables (x variables have obj 0)
Objective(zv) == SumOver(DOMAIN z, [k \in DOMAIN z |-> z[k].obj * zv[k]])

\* ------------------------------------------------------------------------
\* Reading the input (lines 8-30)
\* ------------------------------------------------------------------------
\* A token is the list of its characters; a line is the list of tokens
\* line.split() yields; readline() past the end of the file yields no token.
Digits == <<"0", "1", "2", "3", "4", "5", "6", "7", "8", "9">>

IsDigit(ch) == \E d \in DOMAIN Digits : Digits[d] = ch

DigitVal(ch) == (CHOOSE d \in DOMAIN Digits : Digits[d] = ch) - 1

RECURSIVE Decimal(_)
Decimal(chars) ==
  IF chars = <<>> THEN 0
  ELSE 10 * Decimal(SubSeq(chars, 1, Len(chars) - 1)) + DigitVal(chars[Len(chars)])

\* int(token) succeeds on an optional sign followed by digits
IsInt(tok) ==
  LET body == IF tok # <<>> /\ tok[1] \in {"-", "+"} THEN Tail(tok) ELSE tok
  IN  body # <<>> /\ \A k \in DOMAIN body : IsDigit(body[k])

ToInt(tok) ==
  IF tok[1] = "-" THEN 0 - Decimal(Tail(tok))
  ELSE IF tok[1] = "+" THEN Decimal(Tail(tok))
  ELSE Decimal(tok)

ReadLine(f, k) == IF k + 1 \in DOMAIN f THEN f[k + 1] ELSE <<>>

\* a, b, ... = map(int, line.split()) with n targets: a ValueError unless
\* the line has exactly n tokens and each is an integer
Unpacks(line, n) == Len(line) = n /\ \A k \in DOMAIN line : IsInt(line[k])

\* list(map(int, line.split())): a ValueError unless each token is an integer
Converts(line) == \A k \in DOMAIN line : IsInt(line[k])

Ints(line) == [k \in DOMAIN line |-> ToInt(line[k])]

\* ------------------------------------------------------------------------
\* The input files explored
\* ------------------------------------------------------------------------
Latencies  == 1..2
Demands    == 0..1
Sizes      == 1..2

\* the cache-connection dicts of an endpoint: distinct cache ids, any order
CacheDicts(lats) ==
  {d \in SeqsUpTo((0..(MaxK - 1)) \X lats, MaxK) : IsDict(d)}

RequestLists(videos, eps, demands) ==
  SeqsUpTo([v : videos, e : eps, n : demands], MaxR)

\* (A) one video, one endpoint with every combination of latencies
InstancesLatency ==
  [V : {1}, C : {MaxK}, X : {1},
   video_sizes : {<<1>>},
   endpoints : [1..1 -> [L_dc : Latencies \cup {3}, caches : CacheDicts(Latencies)]],
   requests : RequestLists({0}, {0}, Demands)]

\* (B) several videos competing for the capacity of the caches of one
\* endpoint, cache k at latency k + 1 (only cache 0 beats the datacenter);
\* the declared number of caches C may be smaller than a cache id
InstancesCapacity ==
  [V : {MaxV}, C : {MaxK - 1, MaxK}, X : {2},
   video_sizes : [1..MaxV -> Sizes],
   endpoints : {<<[L_dc |-> 2, caches |-> [k \in 1..MaxK |-> <<k - 1, k>>]]>>},
   requests : RequestLists(0..(MaxV - 1), {0}, {1})]

\* (C) two endpoints with at most one cache each, request records for two
\* videos spread over the endpoints
InstancesShared ==
  [V : {2}, C : {MaxK}, X : {2},
   video_sizes : {<<1, 1>>},
   endpoints : [1..2 -> [L_dc : {1, 2},
                         caches : {d \in CacheDicts({1}) : Len(d) <= 1}]],
   requests : RequestLists({0, 1}, {0, 1}, {1})]

Instances == InstancesLatency \cup InstancesCapacity \cup InstancesShared

\* the instances whose text is also explored with a defect
InstancesDefective == {d \in InstancesLatency : d.endpoints[1].L_dc = 2}

\* the text of an instance, in the input format
RECURSIVE Str(_)
Str(n) ==
  IF n < 10 THEN <<Digits[n + 1]>>
  ELSE Str(n \div 10) \o <<Digits[(n % 10) + 1]>>

Line(ints) == [k \in DOMAIN ints |-> Str(ints[k])]

EndpointLines(ep) ==
  <<Line(<<ep.L_dc, Len(ep.caches)>>)>>
    \o [k \in 1..Len(ep.caches) |-> Line(ep.caches[k])]

RECURSIVE Flatten(_)
Flatten(ss) == IF ss = <<>> THEN <<>> ELSE Head(ss) \o Flatten(Tail(ss))

Render(d) ==
  <<Line(<<d.V, Len(d.endpoints), Len(d.requests), d.C, d.X>>),
    Line(d.video_sizes)>>
    \o Flatten([k \in 1..Len(d.endpoints) |-> EndpointLines(d.endpoints[k])])
    \o [k \in 1..Len(d.requests) |->
          Line(<<d.requests[k].v, d.requests[k].e, d.requests[k].n>>)]

\* departures from the input format
NoDefect == [kind |-> "none", line |-> 0]

DropToken(f, l) == [f EXCEPT ![l] = SubSeq(f[l], 1, Len(f[l]) - 1)]
AddToken(f, l)  == [f EXCEPT ![l] = Append(f[l], <<"0">>)]
BadToken(f, l)  == [f EXCEPT ![l] = [f[l] EXCEPT ![Len(f[l])] = <<"a">>]]
DropLine(f)     == SubSeq(f, 1, Len(f) - 1)
AddLine(f)      == Append(f, <<<<"0">>, <<"0">>, <<"0">>>>)

Init ==
  /\ \E d \in Instances :
       \/ file = Render(d) /\ defect = NoDefect
       \/ /\ d \in InstancesDefective
          /\ \/ \E l \in DOMAIN Render(d) :
                  /\ Render(d)[l] # <<>>
                  /\ \/ /\ file = DropToken(Render(d), l)
                        /\ defect = [kind |-> "token missing", line |-> l]
                     \/ /\ file = AddToken(Render(d), l)
                        /\ defect = [kind |-> "token added", line |-> l]
                     \/ /\ file = BadToken(Render(d), l)
                        /\ defect = [kind |-> "not an integer", line |-> l]
             \/ /\ file = DropLine(Render(d))
                /\ defect = [kind |-> "line missing", line |-> Len(Render(d))]
             \/ /\ file = AddLine(Render(d))
                /\ defect = [kind |-> "line added", line |-> Len(Render(d)) + 1]
  /\ pc = "header"
  /\ raised = 0
  /\ pos = 0
  /\ V = 0 /\ E = 0 /\ R = 0 /\ C = 0 /\ X = 0
  /\ video_sizes = <<>>
  /\ L_dc = 0 /\ K = 0 /\ nconn = 0
  /\ cache_connections = <<>>
  /\ endpoints = <<>>
  /\ requests = <<>>
  /\ m = "none"
  /\ i = 0
  /\ relevant_pairs = {}
  /\ x = <<>>
  /\ numVars = 0
  /\ capacity = <<>>
  /\ requests_summary = <<>>
  /\ z = <<>>
  /\ SolCount = 0
  /\ xval = <<>>
  /\ reads = 0
  /\ solution = <<>>
  /\ out = <<>>

\* ------------------------------------------------------------------------
\* The steps of solve()
\* ------------------------------------------------------------------------

\* an uncaught exception ends the run
Fail(line) ==
  /\ pc' = "failed"
  /\ raised' = line
  /\ UNCHANGED <<fileVars, parsed, parseVars, m, i, modelVars, solverVars, outVars>>

\* line 10: V, E, R, C, X = map(int, f.readline().split())
ReadHeader ==
  /\ pc = "header"
  /\ LET line == ReadLine(file, pos)
     IN  IF Unpacks(line, 5)
           THEN /\ V' = ToInt(line[1]) /\ E' = ToInt(line[2]) /\ R' = ToInt(line[3])
                /\ C' = ToInt(line[4]) /\ X' = ToInt(line[5])
                /\ pos' = pos + 1
                /\ pc' = "sizes"
                /\ UNCHANGED <<fileVars, raised, video_sizes, endpoints, requests, L_dc, K, nconn,
                               cache_connections, m, i, modelVars, solverVars, outVars>>
           ELSE Fail(10)

\* line 13: video_sizes = list(map(int, f.readline().split()))
ReadSizes ==
  /\ pc = "sizes"
  /\ LET line == ReadLine(file, pos)
     IN  IF Converts(line)
           THEN /\ video_sizes' = Ints(line)
                /\ pos' = pos + 1
                /\ pc' = "endpoint"
                /\ i' = 0
                /\ UNCHANGED <<fileVars, raised, V, E, R, C, X, endpoints, requests, L_dc, K, nconn,
                               cache_connections, m, modelVars, solverVars, outVars>>
           ELSE Fail(13)

\* lines 16-19: L_dc, K = map(int, f.readline().split()); cache_connections = {}
ReadEndpoint ==
  /\ pc = "endpoint"
  /\ i < E
  /\ LET line == ReadLine(file, pos)
     IN  IF Unpacks(line, 2)
           THEN /\ L_dc' = ToInt(line[1]) /\ K' = ToInt(line[2])
                /\ cache_connections' = <<>>
                /\ nconn' = 0
                /\ pos' = pos + 1
                /\ pc' = "connection"
                /\ UNCHANGED <<fileVars, raised, parsed, m, i, modelVars, solverVars, outVars>>
           ELSE Fail(18)

\* lines 20-23: c, L_c = map(int, f.readline().split()); cache_connections[c] = L_c
ReadConnection ==
  /\ pc = "connection"
  /\ nconn < K
  /\ LET line == ReadLine(file, pos)
     IN  IF Unpacks(line, 2)
           THEN /\ cache_connections' =
                     DictSet(cache_connections, ToInt(line[1]), ToInt(line[2]))
                /\ nconn' = nconn + 1
                /\ pos' = pos + 1
                /\ UNCHANGED <<fileVars, raised, pc, parsed, L_dc, K, m, i, modelVars,
                               solverVars, outVars>>
           ELSE Fail(22)

\* line 24: endpoints.append({'L_dc': L_dc, 'caches': cache_connections})
EndEndpoint ==
  /\ pc = "connection"
  /\ nconn >= K
  /\ endpoints' = Append(endpoints, [L_dc |-> L_dc, caches |-> cache_connections])
  /\ i' = i + 1
  /\ pc' = "endpoint"
  /\ UNCHANGED <<fileVars, raised, V, E, R, C, X, video_sizes, requests, parseVars, m,
                 modelVars, solverVars, outVars>>

\* line 26: requests = []
EndEndpoints ==
  /\ pc = "endpoint"
  /\ i >= E
  /\ pc' = "request"
  /\ i' = 0
  /\ UNCHANGED <<fileVars, raised, parsed, parseVars, m, modelVars, solverVars, outVars>>

\* lines 27-30: v, e, n = map(int, f.readline().split()); requests.append(...)
ReadRequest ==
  /\ pc = "request"
  /\ i < R
  /\ LET line == ReadLine(file, pos)
     IN  IF Unpacks(line, 3)
           THEN /\ requests' = Append(requests, [v |-> ToInt(line[1]),
                                                 e |-> ToInt(line[2]),
                                                 n |-> ToInt(line[3])])
                /\ i' = i + 1
                /\ pos' = pos + 1
                /\ UNCHANGED <<fileVars, raised, pc, V, E, R, C, X, video_sizes, endpoints,
                               L_dc, K, nconn, cache_connections, m, modelVars,
                               solverVars, outVars>>
           ELSE Fail(29)

\* line 33: m = gp.Model("videos"); the rest of the file is never read
CreateModel ==
  /\ pc = "request"
  /\ i >= R
  /\ m' = "videos"
  /\ pc' = "relevance"
  /\ i' = 1
  /\ UNCHANGED <<fileVars, raised, parsed, parseVars, modelVars, solverVars, outVars>>

\* lines 45-49: one iteration of  for req in requests
\* (the instances explored keep every endpoint id below E, so endpoints[e]
\* is always defined)
RelevanceStep ==
  /\ pc = "relevance"
  /\ i <= Len(requests)
  /\ relevant_pairs' = AddPairs(relevant_pairs, requests[i])
  /\ i' = i + 1
  /\ UNCHANGED <<fileVars, raised, pc, parsed, parseVars, m, x, numVars, capacity,
                 requests_summary, z, solverVars, outVars>>

\* lines 51-52: for c, v in relevant_pairs: x[c, v] = m.addVar(...)
CreateVars ==
  /\ pc = "relevance"
  /\ i > Len(requests)
  /\ \E order \in Orders(relevant_pairs) :
       /\ x' = order
       /\ numVars' = numVars + Len(order)
  /\ pc' = "capacity"
  /\ i' = 0
  /\ UNCHANGED <<fileVars, raised, parsed, parseVars, m, relevant_pairs, capacity,
                 requests_summary, z, solverVars, outVars>>

\* lines 60-64: one iteration of  for c in range(C); video_sizes[v] raises
\* an IndexError when the size list is shorter than v + 1
CapacityStep ==
  /\ pc = "capacity"
  /\ i < C
  /\ IF \E v \in CapacityTerms(i) : v + 1 > Len(video_sizes)
       THEN Fail(62)
       ELSE /\ capacity' = Append(capacity, CapacityConstr(i))
            /\ i' = i + 1
            /\ UNCHANGED <<fileVars, raised, pc, parsed, parseVars, m, relevant_pairs, x,
                           numVars, requests_summary, z, solverVars, outVars>>

\* line 76: requests_summary = {}
CapacityDone ==
  /\ pc = "capacity"
  /\ i >= C
  /\ pc' = "summary"
  /\ i' = 1
  /\ UNCHANGED <<fileVars, raised, parsed, parseVars, m, modelVars, solverVars, outVars>>

\* lines 77-79: one iteration of the aggregation loop
SummaryStep ==
  /\ pc = "summary"
  /\ i <= Len(requests)
  /\ requests_summary' = Summarize(requests_summary, requests[i])
  /\ i' = i + 1
  /\ UNCHANGED <<fileVars, raised, pc, parsed, parseVars, m, relevant_pairs, x, numVars,
                 capacity, z, solverVars, outVars>>

\* line 84: the aggregation is complete
SummaryDone ==
  /\ pc = "summary"
  /\ i > Len(requests)
  /\ pc' = "objective"
  /\ i' = 1
  /\ UNCHANGED <<fileVars, raised, parsed, parseVars, m, modelVars, solverVars, outVars>>

\* lines 86-129: one iteration of  for (v, e), n in requests_summary.items()
ObjectiveStep ==
  /\ pc = "objective"
  /\ i <= Len(requests_summary)
  /\ LET v == requests_summary[i][1][1]
         e == requests_summary[i][1][2]
         n == requests_summary[i][2]
     IN  IF endpoints[e + 1].caches = <<>>
           THEN z' = z                             \* lines 90-91
           ELSE IF ValidCaches(e) = <<>>
             THEN z' = z                           \* lines 100-101
             ELSE z' = z \o ZFamily(v, e, n)       \* lines 112-129
  /\ i' = i + 1
  /\ UNCHANGED <<fileVars, raised, pc, parsed, parseVars, m, relevant_pairs, x, numVars,
                 capacity, requests_summary, solverVars, outVars>>

\* line 140: m.optimize() returns without a solution (the time limit can
\* pass before any is found), or with any assignment of the variables that
\* meets the constraints; only the x values are read afterwards
Optimize ==
  /\ pc = "objective"
  /\ i > Len(requests_summary)
  /\ \/ /\ SolCount' = 0
        /\ xval' = xval
     \/ /\ SolCount' = 1
        /\ \E xv \in XAssignments :
             /\ \E zv \in ZAssignments : Feasible(xv, zv)
             /\ xval' = xv
  /\ pc' = "extract"
  /\ UNCHANGED <<fileVars, raised, parsed, parseVars, m, i, modelVars, outVars>>

\* lines 145-151: build the placement from the values of the x variables;
\* var.X raises an AttributeError when the solver holds no solution
Extract ==
  /\ pc = "extract"
  /\ IF HasSolution(SolCount)
       THEN IF SolCount = 0 /\ x # <<>>
              THEN /\ reads' = reads + 1
                   /\ pc' = "failed"
                   /\ raised' = 148
                   /\ UNCHANGED solution
              ELSE /\ solution' = Extracted(x, xval, Len(x))
                   /\ reads' = reads + Len(x)
                   /\ pc' = "write"
                   /\ UNCHANGED raised
       ELSE /\ pc' = "write"
            /\ UNCHANGED <<solution, reads, raised>>
  /\ UNCHANGED <<fileVars, parsed, parseVars, m, i, modelVars, solverVars, out>>

\* lines 154-157: write videos.out
WriteOutput ==
  /\ pc = "write"
  /\ out' = OutputLines(solution)
  /\ pc' = "done"
  /\ UNCHANGED <<fileVars, raised, parsed, parseVars, m, i, modelVars, solverVars,
                 reads, solution>>

Next ==
  \/ ReadHeader
  \/ ReadSizes
  \/ ReadEndpoint
  \/ ReadConnection
  \/ EndEndpoint
  \/ EndEndpoints
  \/ ReadRequest
  \/ CreateModel
  \/ RelevanceStep
  \/ CreateVars
  \/ CapacityStep
  \/ CapacityDone
  \/ SummaryStep
  \/ SummaryDone
  \/ ObjectiveStep
  \/ Optimize
  \/ Extract
  \/ WriteOutput

Spec == Init /\ [][Next]_vars

\* ------------------------------------------------------------------------
\* Properties
\* ------------------------------------------------------------------------
\* the model is complete: optimize() is about to be called
ModelBuilt == pc = "objective" /\ i > Len(requests_summary)

Built == ModelBuilt \/ pc \in {"extract", "write", "done"}

Latency(e, c) == Lookup(endpoints[e + 1].caches, c)

\* every cache id is in [0, C), every video id in [0, V) and has a size
WellFormedIds ==
  /\ Len(video_sizes) = V
  /\ \A k \in DOMAIN endpoints : Keys(endpoints[k].caches) \subseteq 0..(C - 1)
  /\ \A k \in DOMAIN requests :
       requests[k].v \in 0..(V - 1) /\ requests[k].e \in 0..(E - 1)

\* total size of the videos listed for cache c in the output
ListedSize(c) ==
  LET cells == UNION {{<<k, p>> : p \in 2..Len(out[k])} :
                        k \in {l \in 2..Len(out) : out[l][1] = c}}
  IN  SumOver(cells, [cell \in cells |-> video_sizes[out[cell[1]][cell[2]] + 1]])

\* C1: for well-formed input and any assignment the solver returns, the
\* videos written for each cache have total size at most X.
CapacityRespected ==
  (pc = "done" /\ WellFormedIds) => \A c \in 0..(C - 1) : ListedSize(c) <= X

\* a cache filled to exactly X by two or more videos
CapacityWitness ==
  /\ pc = "done" /\ WellFormedIds
  /\ \E k \in 2..Len(out) : Len(out[k]) >= 3 /\ ListedSize(out[k][1]) = X

\* the pairs <<c, v>> for which some request record references video v at an
\* endpoint whose cache connections contain c
ReachablePairs ==
  UNION {{<<c, requests[k].v>> : c \in Keys(endpoints[requests[k].e + 1].caches)} :
           k \in DOMAIN requests}

VarsCreated == m = "videos" /\ pc # "relevance"

\* C3: once the variables are created, x[c, v] exists iff some request
\* record references v at an endpoint connected to c, each such pair has
\* exactly one variable, and no latency or size threshold removes a pair.
RelevantIffReachable ==
  VarsCreated =>
    /\ Range(x) = ReachablePairs
    /\ Len(x) = Cardinality(ReachablePairs)
    /\ numVars = Cardinality(ReachablePairs)

\* a pair produced by two records at two endpoints, for one of which the
\* cache is no better than the datacenter
RelevantWitness ==
  /\ pc = "capacity"
  /\ \E a, b \in DOMAIN requests :
       /\ a # b
       /\ requests[a].v = requests[b].v
       /\ requests[a].e # requests[b].e
       /\ \E c \in Keys(endpoints[requests[a].e + 1].caches)
                     \cap Keys(endpoints[requests[b].e + 1].caches) :
            /\ <<c, requests[a].v>> \in Range(x)
            /\ Latency(requests[a].e, c) >= endpoints[requests[a].e + 1].L_dc

\* C5: when the solver returns without any solution, no variable value is
\* read, the placement is empty and the output is the single line "0"; the
\* run does not fail.
NoSolutionEmptyOutput ==
  SolCount = 0 =>
    /\ reads = 0
    /\ solution = <<>>
    /\ raised # 148
    /\ (pc = "done" => out = <<<<0>>>>)

\* a run ends with no solution although placement variables exist
NoSolutionWitness ==
  pc = "done" /\ SolCount = 0 /\ x # <<>> /\ out = <<<<0>>>>

\* the pairs whose variable the solver set to 1
AssignedPairs == {key \in Range(x) : xval[key] = 1}

\* C6: with a solution, the first line is the number of caches holding a
\* video, each such cache has exactly one line, that line lists exactly its
\* assigned videos without repetition, and no other cache has a line.
OutputIsPlacement ==
  (pc = "done" /\ SolCount > 0) =>
    LET used == {key[1] : key \in AssignedPairs}
    IN  /\ out[1] = <<Cardinality(used)>>
        /\ Len(out) = 1 + Cardinality(used)
        /\ \A c \in used : Cardinality({k \in 2..Len(out) : out[k][1] = c}) = 1
        /\ \A k \in 2..Len(out) :
             LET listed == {out[k][p] : p \in 2..Len(out[k])}
             IN  /\ out[k][1] \in used
                 /\ listed = {key[2] : key \in {a \in AssignedPairs : a[1] = out[k][1]}}
                 /\ Len(out[k]) = 1 + Cardinality(listed)

\* two caches written, one of them no better than the datacenter and
\* holding two videos
OutputWitness ==
  /\ pc = "done" /\ SolCount > 0
  /\ Len(out) = 3
  /\ \E k \in 2..Len(out) :
       /\ Len(out[k]) >= 3
       /\ \A e \in 0..(E - 1) :
            HasKey(endpoints[e + 1].caches, out[k][1])
              => Latency(e, out[k][1]) >= endpoints[e + 1].L_dc

Max(S) == CHOOSE a \in S : \A b \in S : b <= a
Min(S) == CHOOSE a \in S : \A b \in S : a <= b

\* the z variables created for the pair (v, e)
Family(v, e) == {k \in DOMAIN z : z[k].v = v /\ z[k].e = e}

\* number of caches of the cover constraint of z[k] that store its video
Covered(xv, k) ==
  SumOver(Range(z[k].subset), [c \in Range(z[k].subset) |-> xv[<<c, z[k].v>>]])

\* the largest objective value the z variables of (v, e) can reach under
\* the cover constraints, for the placement xv
MaxContribution(xv, v, e) ==
  LET fam == Family(v, e)
      ok  == {zv \in [fam -> {0, 1}] : \A k \in fam : zv[k] <= Covered(xv, k)}
  IN  Max({SumOver(fam, [k \in fam |-> z[k].obj * zv[k]]) : zv \in ok})

\* the latency saved by the best cache of e that stores v under xv
BestSaving(xv, v, e) ==
  LET dc     == endpoints[e + 1].L_dc
      stored == {c \in Keys(endpoints[e + 1].caches) :
                   xv[<<c, v>>] = 1 /\ Latency(e, c) < dc}
  IN  IF stored = {} THEN 0 ELSE dc - Min({Latency(e, c) : c \in stored})

\* C2: for every placement and every (v, e) with demand n > 0, the largest
\* value the z variables of (v, e) can contribute equals n times the latency
\* saved by the best cache of e storing v (0 if none), ties included.
TelescopingIsBestSaving ==
  ModelBuilt =>
    \A xv \in XAssignments : \A k \in DOMAIN requests_summary :
      LET v == requests_summary[k][1][1]
          e == requests_summary[k][1][2]
          n == requests_summary[k][2]
      IN  n > 0 => MaxContribution(xv, v, e) = n * BestSaving(xv, v, e)

\* a pair with positive demand at an endpoint with two caches of equal
\* latency, both better than the datacenter
TelescopingWitness ==
  /\ ModelBuilt
  /\ \E k \in DOMAIN requests_summary :
       LET e == requests_summary[k][1][2]
       IN  /\ requests_summary[k][2] > 1
           /\ Len(ValidCaches(e)) = 2
           /\ ValidCaches(e)[1][2] = ValidCaches(e)[2][2]
           /\ Family(requests_summary[k][1][1], e) # {}

\* the sum of n over all request records for (v, e)
TotalDemand(v, e) ==
  LET recs == {k \in DOMAIN requests : requests[k].v = v /\ requests[k].e = e}
  IN  SumOver(recs, [k \in recs |-> requests[k].n])

RequestedPairs == {<<requests[k].v, requests[k].e>> : k \in DOMAIN requests}

\* C4: records with the same (v, e) are aggregated: one family of z per
\* (v, e), each coefficient is the marginal gain times the total demand, and
\* the terms built depend only on the totals, not on the order or the
\* splitting of the records.
DemandAggregated ==
  Built =>
    /\ \A a, b \in DOMAIN z :
         (z[a].v = z[b].v /\ z[a].e = z[b].e /\ z[a].i = z[b].i) => a = b
    /\ \A k \in DOMAIN z :
         z[k].obj = MarginalGain(Values(z[k].e), z[k].i + 1)
                      * TotalDemand(z[k].v, z[k].e)
    /\ Range(z) = UNION {Range(ZFamily(p[1], p[2], TotalDemand(p[1], p[2]))) :
                           p \in RequestedPairs}

\* two records for the same (v, e) and a record for another pair, all with
\* z variables
AggregationWitness ==
  /\ ModelBuilt
  /\ \E a, b \in DOMAIN requests :
       /\ a # b
       /\ requests[a].v = requests[b].v /\ requests[a].e = requests[b].e
       /\ requests[a].n > 0 /\ requests[b].n > 0
       /\ \E k \in Family(requests[a].v, requests[a].e) :
            z[k].obj = MarginalGain(Values(z[k].e), z[k].i + 1)
                         * (requests[a].n + requests[b].n)

\* the placement xv with the value of x[c, v] flipped
Flipped(xv, c, v) == [xv EXCEPT ![<<c, v>>] = 1 - xv[<<c, v>>]]

\* C7: a cache no better than the datacenter for endpoint e is in no cover
\* constraint of a pair (v, e), so storing v in it changes nothing of what
\* the z variables of (v, e) can contribute; and a pair whose endpoint has
\* no better cache gets no z variable and no cover constraint.
NoGainCacheExcluded ==
  /\ \A k \in DOMAIN z : \A c \in Range(z[k].subset) :
       Latency(z[k].e, c) < endpoints[z[k].e + 1].L_dc
  /\ ModelBuilt =>
       \A p \in RequestedPairs : \A c \in Keys(endpoints[p[2] + 1].caches) :
         Latency(p[2], c) >= endpoints[p[2] + 1].L_dc =>
           \A xv \in XAssignments :
             MaxContribution(Flipped(xv, c, p[1]), p[1], p[2])
               = MaxContribution(xv, p[1], p[2])
  /\ Built =>
       \A p \in RequestedPairs :
         (\A c \in Keys(endpoints[p[2] + 1].caches) :
            Latency(p[2], c) >= endpoints[p[2] + 1].L_dc)
           => Family(p[1], p[2]) = {}

\* one cache serves two endpoints requesting the same video: it is no
\* better than the datacenter for the first and covers the second
NoGainWitness ==
  /\ ModelBuilt
  /\ \E p, q \in RequestedPairs :
       /\ p[1] = q[1] /\ p[2] # q[2]
       /\ Family(p[1], p[2]) = {}
       /\ \E c \in Keys(endpoints[p[2] + 1].caches) :
            /\ Latency(p[2], c) >= endpoints[p[2] + 1].L_dc
            /\ \E k \in Family(q[1], q[2]) : c \in Range(z[k].subset)

\* C8: a malformed input makes solve() fail before the model object, any
\* variable, any constraint or the output file is created.
MalformedFailsInParsing ==
  defect.kind # "none" =>
    /\ m = "none"
    /\ numVars = 0 /\ capacity = <<>> /\ z = <<>>
    /\ out = <<>>

\* C9: z variables exist only for pairs with total demand n > 0, and each
\* has a strictly positive objective coefficient.
PositiveDemandOnly ==
  \A k \in DOMAIN z : TotalDemand(z[k].v, z[k].e) > 0 /\ z[k].obj > 0

\* the assignments of the built model with the largest objective value
Optimal(xv, zv) ==
  /\ Feasible(xv, zv)
  /\ \A xw \in XAssignments : \A zw \in ZAssignments :
       Feasible(xw, zw) => Objective(zw) <= Objective(zv)

\* C10: in every optimal assignment the z variables of a pair (v, e) are
\* non-decreasing in the rank i.
OptimalZMonotone ==
  ModelBuilt =>
    \A xv \in XAssignments : \A zv \in ZAssignments :
      Optimal(xv, zv) =>
        \A a, b \in DOMAIN z :
          (z[a].v = z[b].v /\ z[a].e = z[b].e /\ z[a].i < z[b].i /\ zv[a] = 1)
            => zv[b] = 1

====
